---- MODULE Spec2Model ----
(***************************************************************************)
(* A model of src/src/core/types/structs.rs of the ocl crate: the          *)
(* ContextProperties list and its packed-byte form, ImageFormat and its    *)
(* raw conversions and pixel size, and ImageDescriptor and its raw         *)
(* projection.                                                             *)
(***************************************************************************)
EXTENDS Integers, Sequences, FiniteSets, TLC

VARIABLES
    usize_bytes,   \* size in bytes of usize and of a pointer on the build target
    big_endian,    \* byte order of the build target
    props,         \* ContextProperties.0, the Vec<ContextProperty>
    hist,          \* the entries given to the builder calls since new(), in call order
    op,            \* the operation of ContextProperties that ran last
    bytes,         \* what the last to_bytes / Into<Vec<u8>> returned
    prev_bytes,    \* what the to_bytes call right before it returned (<<>>: there was none)
    platform_out,  \* what the last get_platform returned
    vec_out,       \* what Into<Vec<ContextProperty>> returned
    fmt_raw,       \* the cl_image_format given to ImageFormat::from_raw
    fmt_res,       \* the OclResult<ImageFormat> or ImageFormat at hand
    fmt_op,        \* the operation that made fmt_res: "new", "new_rgba" or "from_raw"
    fmt_query,     \* the operation on the ImageFormat that ran last, "none" before any
    raw_out,       \* what ImageFormat::to_raw returned
    px_out,        \* what ImageFormat::pixel_bytes returned
    list_raw,      \* the Vec<cl_image_format> given to ImageFormat::list_from_raw
    list_res,      \* what list_from_raw returned, with the from_raw calls it made
    list_op,       \* "input" before list_from_raw ran, "list_from_raw" after
    desc,          \* the ImageDescriptor
    desc_raw,      \* what ImageDescriptor::to_raw returned
    desc_op        \* the operation of ImageDescriptor that ran last

propVars == <<props, hist, op, bytes, prev_bytes, platform_out, vec_out>>
targetVars == <<usize_bytes, big_endian>>
fmtVars == <<fmt_raw, fmt_res, fmt_op, fmt_query, raw_out, px_out>>
listVars == <<list_raw, list_res, list_op>>
descVars == <<desc, desc_raw, desc_op>>
vars == <<targetVars, propVars, fmtVars, listVars, descVars>>

\* Bounds of the model.
MaxProps == 3
MaxList == 3
MaxDim == 1

\* Option<T>
None == [some |-> FALSE]
Some(x) == [some |-> TRUE, val |-> x]

(***************************************************************************)
(* Collaborators of structs.rs that live outside src/.                     *)
(***************************************************************************)

\* The pointer widths of the targets rustc builds this crate for.
PointerSizes == {4, 8}

\* std::mem::size_of of the types to_bytes converts (cl_h: cl_uint = u32,
\* cl_bool = cl_uint, cl_platform_id = *mut c_void).
SizeOf(ty) ==
    CASE ty = "u32" -> 4
      [] ty = "cl_uint" -> 4
      [] ty = "cl_bool" -> 4
      [] ty = "usize" -> usize_bytes
      [] ty = "cl_platform_id" -> usize_bytes

RECURSIVE LittleEndian(_, _)
LittleEndian(v, n) ==
    IF n = 0 THEN <<>> ELSE <<v % 256>> \o LittleEndian(v \div 256, n - 1)

Reverse(s) == [i \in 1..Len(s) |-> s[Len(s) + 1 - i]]

\* util::into_bytes::<T>(val): the size_of::<T>() bytes of val in memory order.
into_bytes(v, ty) ==
    IF big_endian THEN Reverse(LittleEndian(v, SizeOf(ty)))
    ELSE LittleEndian(v, SizeOf(ty))

\* ContextInfoOrPropertiesPointerType as cl_uint (CL_CONTEXT_PLATFORM = 0x1084,
\* CL_CONTEXT_INTEROP_USER_SYNC = 0x1085).
PropKind(kind) ==
    CASE kind = "Platform" -> 4228
      [] kind = "InteropUserSync" -> 4229

\* Raw platform handles (PlatformId::as_ptr).
PlatformHandles == {4660, 16909060}

\* core::ContextProperty: the two variants to_bytes encodes and one of the
\* variants it does not (GlContextKhr carries a raw pointer).
ContextProperty ==
    [kind : {"Platform"}, val : PlatformHandles]
    \cup [kind : {"InteropUserSync"}, val : BOOLEAN]
    \cup [kind : {"GlContextKhr"}, val : {4660}]

\* `sync as cl_h::cl_bool`
BoolAsClBool(b) == IF b THEN 1 ELSE 0

(***************************************************************************)
(* ContextProperties                                                       *)
(***************************************************************************)

ContextProperties_new == <<>>

\* A faulty platform: an earlier Platform entry is replaced.
platform_replacing(self, h) ==
    IF \E i \in DOMAIN self : self[i].kind = "Platform"
    THEN [i \in DOMAIN self |->
            IF self[i].kind = "Platform" THEN [kind |-> "Platform", val |-> h] ELSE self[i]]
    ELSE Append(self, [kind |-> "Platform", val |-> h])

platform(self, h) == Append(self, [kind |-> "Platform", val |-> h])

interop_user_sync(self, sync) == Append(self, [kind |-> "InteropUserSync", val |-> sync])

and(self, prop) == Append(self, prop)

RECURSIVE get_platform_loop(_, _, _)
get_platform_loop(self, i, plat) ==
    IF i > Len(self) THEN plat
    ELSE IF self[i].kind = "Platform"
         THEN get_platform_loop(self, i + 1, Some(self[i].val))
         ELSE get_platform_loop(self, i + 1, plat)

\* A faulty get_platform: the first Platform entry wins.
RECURSIVE get_platform_first(_)
get_platform_first(self) ==
    IF self = <<>> THEN None
    ELSE IF Head(self).kind = "Platform" THEN Some(Head(self).val)
         ELSE get_platform_first(Tail(self))

get_platform(self) == get_platform_loop(self, 1, None)

\* The loop of to_bytes from entry i on, with the bytes gathered so far.
RECURSIVE to_bytes_loop(_, _, _)
to_bytes_loop(self, i, acc) ==
    IF i > Len(self)
    THEN acc \o into_bytes(0, "usize")
    ELSE LET prop == self[i] IN
         IF prop.kind = "Platform"
         THEN to_bytes_loop(self, i + 1,
                  acc \o into_bytes(PropKind("Platform"), "cl_uint")
                      \o into_bytes(0, "u32")
                      \o into_bytes(prop.val, "cl_platform_id")
                      \o into_bytes(0, "u32"))
         ELSE IF prop.kind = "InteropUserSync"
         THEN to_bytes_loop(self, i + 1,
                  acc \o into_bytes(PropKind("InteropUserSync"), "cl_uint")
                      \o into_bytes(0, "u32")
                      \o into_bytes(BoolAsClBool(prop.val), "cl_bool")
                      \o into_bytes(0, "u32"))
         ELSE to_bytes_loop(self, i + 1, acc)

\* A faulty to_bytes: every value is written as a native word.
RECURSIVE to_bytes_word_values_loop(_, _)
to_bytes_word_values_loop(self, acc) ==
    IF self = <<>> THEN acc \o into_bytes(0, "usize")
    ELSE LET prop == Head(self) IN
         IF prop.kind \in {"Platform", "InteropUserSync"}
         THEN to_bytes_word_values_loop(Tail(self),
                  acc \o into_bytes(PropKind(prop.kind), "cl_uint")
                      \o into_bytes(0, "u32")
                      \o into_bytes(IF prop.kind = "Platform" THEN prop.val
                                    ELSE BoolAsClBool(prop.val), "usize")
                      \o into_bytes(0, "u32"))
         ELSE to_bytes_word_values_loop(Tail(self), acc)

to_bytes_word_values(self) == to_bytes_word_values_loop(self, <<>>)

\* A faulty to_bytes: the 32 bits of padding after the value are left out.
RECURSIVE to_bytes_unpadded_loop(_, _)
to_bytes_unpadded_loop(self, acc) ==
    IF self = <<>> THEN acc \o into_bytes(0, "usize")
    ELSE LET prop == Head(self) IN
         IF prop.kind = "Platform"
         THEN to_bytes_unpadded_loop(Tail(self),
                  acc \o into_bytes(PropKind("Platform"), "cl_uint")
                      \o into_bytes(0, "u32")
                      \o into_bytes(prop.val, "cl_platform_id"))
         ELSE IF prop.kind = "InteropUserSync"
         THEN to_bytes_unpadded_loop(Tail(self),
                  acc \o into_bytes(PropKind("InteropUserSync"), "cl_uint")
                      \o into_bytes(0, "u32")
                      \o into_bytes(BoolAsClBool(prop.val), "cl_bool"))
         ELSE to_bytes_unpadded_loop(Tail(self), acc)

to_bytes_unpadded(self) == to_bytes_unpadded_loop(self, <<>>)

to_bytes(self) == to_bytes_loop(self, 1, <<>>)

into_vec(self) == self

into_vec_u8(self) == to_bytes(self)

\* self has been moved out of by one of the two Into conversions.
Consumed == op \in {"into_vec", "into_vec_u8"}

\* What the variables holding return values hold when nothing was returned
\* since the list last changed.
NoOutputs ==
    /\ bytes' = <<>>
    /\ prev_bytes' = <<>>
    /\ platform_out' = None
    /\ vec_out' = <<>>

PropsInit ==
    /\ props = ContextProperties_new
    /\ hist = <<>>
    /\ op = "new"
    /\ bytes = <<>>
    /\ prev_bytes = <<>>
    /\ platform_out = None
    /\ vec_out = <<>>

New ==
    /\ props' = ContextProperties_new
    /\ hist' = <<>>
    /\ op' = "new"
    /\ NoOutputs

Platform ==
    /\ ~Consumed
    /\ Len(hist) < MaxProps
    /\ \E h \in PlatformHandles :
          /\ props' = platform(props, h)
          /\ hist' = Append(hist, [kind |-> "Platform", val |-> h])
    /\ op' = "platform"
    /\ NoOutputs

InteropUserSync ==
    /\ ~Consumed
    /\ Len(hist) < MaxProps
    /\ \E sync \in BOOLEAN :
          /\ props' = interop_user_sync(props, sync)
          /\ hist' = Append(hist, [kind |-> "InteropUserSync", val |-> sync])
    /\ op' = "interop_user_sync"
    /\ NoOutputs

And ==
    /\ ~Consumed
    /\ Len(hist) < MaxProps
    /\ \E prop \in ContextProperty :
          /\ props' = and(props, prop)
          /\ hist' = Append(hist, prop)
    /\ op' = "and"
    /\ NoOutputs

GetPlatform ==
    /\ ~Consumed
    /\ platform_out' = get_platform(props)
    /\ op' = "get_platform"
    /\ UNCHANGED <<props, hist, bytes, prev_bytes, vec_out>>

\* prev_bytes keeps what the to_bytes call before this one returned for the
\* same list.
ToBytes ==
    /\ ~Consumed
    /\ bytes' = to_bytes(props)
    /\ prev_bytes' = bytes
    /\ op' = "to_bytes"
    /\ UNCHANGED <<props, hist, platform_out, vec_out>>

IntoVec ==
    /\ ~Consumed
    /\ vec_out' = into_vec(props)
    /\ op' = "into_vec"
    /\ UNCHANGED <<props, hist, bytes, prev_bytes, platform_out>>

IntoVecU8 ==
    /\ ~Consumed
    /\ bytes' = into_vec_u8(props)
    /\ prev_bytes' = bytes
    /\ op' = "into_vec_u8"
    /\ UNCHANGED <<props, hist, platform_out, vec_out>>

TargetInit ==
    /\ usize_bytes \in PointerSizes
    /\ big_endian \in BOOLEAN

(***************************************************************************)
(* ImageFormat                                                             *)
(***************************************************************************)

\* OclResult<T>
Ok(x) == [ok |-> TRUE, val |-> x]
Err(msg) == [ok |-> FALSE, err |-> msg]

\* core::ImageChannelOrder, an enum_from_primitive! enum over cl_h's CL_R ..
\* CL_DEPTH_STENCIL (0x10B0 .. 0x10BE): `order as cl_channel_order`.
ImageChannelOrder ==
    {"R", "A", "Rg", "Ra", "Rgb", "Rgba", "Bgra", "Argb", "Intensity",
     "Luminance", "Rx", "Rgx", "Rgbx", "Depth", "DepthStencil"}

ImageChannelOrder_as_u32(order) ==
    CASE order = "R" -> 4272
      [] order = "A" -> 4273
      [] order = "Rg" -> 4274
      [] order = "Ra" -> 4275
      [] order = "Rgb" -> 4276
      [] order = "Rgba" -> 4277
      [] order = "Bgra" -> 4278
      [] order = "Argb" -> 4279
      [] order = "Intensity" -> 4280
      [] order = "Luminance" -> 4281
      [] order = "Rx" -> 4282
      [] order = "Rgx" -> 4283
      [] order = "Rgbx" -> 4284
      [] order = "Depth" -> 4285
      [] order = "DepthStencil" -> 4286

\* core::ImageChannelDataType, an enum_from_primitive! enum over cl_h's
\* CL_SNORM_INT8 .. CL_UNORM_INT24 (0x10D0 .. 0x10DF).
ImageChannelDataType ==
    {"SnormInt8", "SnormInt16", "UnormInt8", "UnormInt16", "UnormShort565",
     "UnormShort555", "UnormInt101010", "SignedInt8", "SignedInt16",
     "SignedInt32", "UnsignedInt8", "UnsignedInt16", "UnsignedInt32",
     "HalfFloat", "Float", "UnormInt24"}

ImageChannelDataType_as_u32(data_type) ==
    CASE data_type = "SnormInt8" -> 4304
      [] data_type = "SnormInt16" -> 4305
      [] data_type = "UnormInt8" -> 4306
      [] data_type = "UnormInt16" -> 4307
      [] data_type = "UnormShort565" -> 4308
      [] data_type = "UnormShort555" -> 4309
      [] data_type = "UnormInt101010" -> 4310
      [] data_type = "SignedInt8" -> 4311
      [] data_type = "SignedInt16" -> 4312
      [] data_type = "SignedInt32" -> 4313
      [] data_type = "UnsignedInt8" -> 4314
      [] data_type = "UnsignedInt16" -> 4315
      [] data_type = "UnsignedInt32" -> 4316
      [] data_type = "HalfFloat" -> 4317
      [] data_type = "Float" -> 4318
      [] data_type = "UnormInt24" -> 4319

\* num::FromPrimitive::from_u32 as enum_from_primitive! derives it: the variant
\* whose discriminant is n, or None.
ImageChannelOrder_from_u32(n) ==
    IF \E o \in ImageChannelOrder : ImageChannelOrder_as_u32(o) = n
    THEN Some(CHOOSE o \in ImageChannelOrder : ImageChannelOrder_as_u32(o) = n)
    ELSE None

ImageChannelDataType_from_u32(n) ==
    IF \E d \in ImageChannelDataType : ImageChannelDataType_as_u32(d) = n
    THEN Some(CHOOSE d \in ImageChannelDataType : ImageChannelDataType_as_u32(d) = n)
    ELSE None

\* The cl_channel_order and cl_channel_type codes the model feeds from_raw:
\* every code of the enum, the codes next to its range, 0, and the first
\* code of the other enum.
ChannelOrderCodes ==
    {ImageChannelOrder_as_u32(o) : o \in ImageChannelOrder} \cup {0, 4271, 4287, 4304}

ChannelTypeCodes ==
    {ImageChannelDataType_as_u32(d) : d \in ImageChannelDataType} \cup {0, 4303, 4320, 4272}

\* cl_h::cl_image_format
cl_image_format ==
    [image_channel_order : ChannelOrderCodes, image_channel_data_type : ChannelTypeCodes]

ERR_ORDER == "Error converting to 'ImageChannelOrder'."
ERR_DATA_TYPE == "Error converting to 'ImageChannelDataType'."

ImageFormat_new(order, data_type) ==
    [channel_order |-> order, channel_data_type |-> data_type]

ImageFormat_new_rgba == [channel_order |-> "Rgba", channel_data_type |-> "SnormInt8"]

\* A faulty from_raw: the data type is converted before the channel order.
from_raw_type_first(raw) ==
    LET order == ImageChannelOrder_from_u32(raw.image_channel_order)
        data_type == ImageChannelDataType_from_u32(raw.image_channel_data_type)
    IN  IF ~data_type.some THEN Err(ERR_DATA_TYPE)
        ELSE IF ~order.some THEN Err(ERR_ORDER)
        ELSE Ok([channel_order |-> order.val, channel_data_type |-> data_type.val])

ImageFormat_from_raw(raw) ==
    LET order == ImageChannelOrder_from_u32(raw.image_channel_order)
        data_type == ImageChannelDataType_from_u32(raw.image_channel_data_type)
    IN  IF ~order.some THEN Err(ERR_ORDER)
        ELSE IF ~data_type.some THEN Err(ERR_DATA_TYPE)
        ELSE Ok([channel_order |-> order.val, channel_data_type |-> data_type.val])

\* The loop of list_from_raw from element i on: result_list as pushed so
\* far, and the number of from_raw calls made so far.
RECURSIVE list_from_raw_loop(_, _, _, _)
list_from_raw_loop(raws, i, result_list, calls) ==
    IF i > Len(raws) THEN [res |-> Ok(result_list), calls |-> calls]
    ELSE LET r == ImageFormat_from_raw(raws[i]) IN
         IF r.ok
         THEN list_from_raw_loop(raws, i + 1, Append(result_list, r.val), calls + 1)
         ELSE [res |-> Err(r.err), calls |-> calls + 1]

\* A faulty list_from_raw: a rejected element is left out and the loop goes on.
RECURSIVE list_from_raw_skipping(_, _, _, _)
list_from_raw_skipping(raws, i, result_list, calls) ==
    IF i > Len(raws) THEN [res |-> Ok(result_list), calls |-> calls]
    ELSE LET r == ImageFormat_from_raw(raws[i]) IN
         IF r.ok
         THEN list_from_raw_skipping(raws, i + 1, Append(result_list, r.val), calls + 1)
         ELSE list_from_raw_skipping(raws, i + 1, result_list, calls + 1)

list_from_raw_collecting(raws) == list_from_raw_skipping(raws, 1, <<>>, 0)

ImageFormat_list_from_raw(raws) == list_from_raw_loop(raws, 1, <<>>, 0)

\* A faulty to_raw: the two codes change places.
to_raw_swapped(self) ==
    [image_channel_order |-> ImageChannelDataType_as_u32(self.channel_data_type),
     image_channel_data_type |-> ImageChannelOrder_as_u32(self.channel_order)]

ImageFormat_to_raw(self) ==
    [image_channel_order |-> ImageChannelOrder_as_u32(self.channel_order),
     image_channel_data_type |-> ImageChannelDataType_as_u32(self.channel_data_type)]

ImageFormat_new_raw == [image_channel_order |-> 0, image_channel_data_type |-> 0]

channel_count(order) ==
    CASE order = "R" -> 1
      [] order = "A" -> 1
      [] order = "Rg" -> 2
      [] order = "Ra" -> 2
      [] order = "Rgb" -> 1
      [] order = "Rgba" -> 4
      [] order = "Bgra" -> 4
      [] order = "Argb" -> 4
      [] order = "Intensity" -> 4
      [] order = "Luminance" -> 4
      [] order = "Rx" -> 2
      [] order = "Rgx" -> 4
      [] order = "Rgbx" -> 4
      [] OTHER -> 0

channel_size(data_type) ==
    CASE data_type = "SnormInt8" -> 1
      [] data_type = "SnormInt16" -> 2
      [] data_type = "UnormInt8" -> 1
      [] data_type = "UnormInt16" -> 2
      [] data_type = "UnormShort565" -> 2
      [] data_type = "UnormShort555" -> 2
      [] data_type = "UnormInt101010" -> 4
      [] data_type = "SignedInt8" -> 1
      [] data_type = "SignedInt16" -> 2
      [] data_type = "SignedInt32" -> 4
      [] data_type = "UnsignedInt8" -> 1
      [] data_type = "UnsignedInt16" -> 2
      [] data_type = "UnsignedInt32" -> 4
      [] data_type = "HalfFloat" -> 2
      [] data_type = "Float" -> 4
      [] OTHER -> 0

\* A faulty pixel_bytes: Rgx counts two channels, as Rg does.
pixel_bytes_rgx_two(self) ==
    (IF self.channel_order = "Rgx" THEN 2 ELSE channel_count(self.channel_order))
        * channel_size(self.channel_data_type)

pixel_bytes(self) ==
    channel_count(self.channel_order) * channel_size(self.channel_data_type)

FormatInit ==
    /\ fmt_raw = ImageFormat_new_raw
    /\ fmt_res = Ok(ImageFormat_new_rgba)
    /\ fmt_op = "new_rgba"
    /\ fmt_query = "none"
    /\ raw_out = ImageFormat_new_raw
    /\ px_out = 0

\* ImageFormat::new(order, data_type)
FormatNew ==
    /\ \E order \in ImageChannelOrder, data_type \in ImageChannelDataType :
          fmt_res' = Ok(ImageFormat_new(order, data_type))
    /\ fmt_op' = "new"
    /\ fmt_query' = "none"
    /\ fmt_raw' = ImageFormat_new_raw
    /\ raw_out' = ImageFormat_new_raw
    /\ px_out' = 0

FormatNewRgba ==
    /\ fmt_res' = Ok(ImageFormat_new_rgba)
    /\ fmt_op' = "new_rgba"
    /\ fmt_query' = "none"
    /\ fmt_raw' = ImageFormat_new_raw
    /\ raw_out' = ImageFormat_new_raw
    /\ px_out' = 0

FormatFromRaw ==
    /\ \E raw \in cl_image_format :
          /\ fmt_raw' = raw
          /\ fmt_res' = ImageFormat_from_raw(raw)
    /\ fmt_op' = "from_raw"
    /\ fmt_query' = "none"
    /\ raw_out' = ImageFormat_new_raw
    /\ px_out' = 0

\* to_raw and pixel_bytes take &self: they need an ImageFormat.
FormatToRaw ==
    /\ fmt_res.ok
    /\ raw_out' = ImageFormat_to_raw(fmt_res.val)
    /\ fmt_query' = "to_raw"
    /\ UNCHANGED <<fmt_raw, fmt_res, fmt_op, px_out>>

FormatPixelBytes ==
    /\ fmt_res.ok
    /\ px_out' = pixel_bytes(fmt_res.val)
    /\ fmt_query' = "pixel_bytes"
    /\ UNCHANGED <<fmt_raw, fmt_res, fmt_op, raw_out>>

\* The raw formats the model builds lists of: two that from_raw accepts, one
\* with an unknown channel order, one with an unknown data type, one with both.
ListRawFormats ==
    {[image_channel_order |-> 4277, image_channel_data_type |-> 4306],
     [image_channel_order |-> 4272, image_channel_data_type |-> 4318],
     [image_channel_order |-> 0, image_channel_data_type |-> 4306],
     [image_channel_order |-> 4277, image_channel_data_type |-> 4320],
     [image_channel_order |-> 4287, image_channel_data_type |-> 0]}

ListInit ==
    /\ list_raw = <<>>
    /\ list_res = [res |-> Ok(<<>>), calls |-> 0]
    /\ list_op = "input"

\* The caller pushes one more raw format onto the Vec it will pass.
ListPush ==
    /\ list_op = "input"
    /\ Len(list_raw) < MaxList
    /\ \E raw \in ListRawFormats : list_raw' = Append(list_raw, raw)
    /\ UNCHANGED <<list_res, list_op>>

ListFromRaw ==
    /\ list_op = "input"
    /\ list_res' = ImageFormat_list_from_raw(list_raw)
    /\ list_op' = "list_from_raw"
    /\ UNCHANGED list_raw

(***************************************************************************)
(* ImageDescriptor                                                         *)
(***************************************************************************)

\* core::MemObjectType over cl_h's CL_MEM_OBJECT_BUFFER .. CL_MEM_OBJECT_PIPE
\* (0x10F0 .. 0x10F7): `image_type as u32`.
MemObjectType ==
    {"Buffer", "Image2d", "Image3d", "Image2dArray", "Image1d", "Image1dArray",
     "Image1dBuffer", "Pipe"}

MemObjectType_as_u32(image_type) ==
    CASE image_type = "Buffer" -> 4336
      [] image_type = "Image2d" -> 4337
      [] image_type = "Image3d" -> 4338
      [] image_type = "Image2dArray" -> 4339
      [] image_type = "Image1d" -> 4340
      [] image_type = "Image1dArray" -> 4341
      [] image_type = "Image1dBuffer" -> 4342
      [] image_type = "Pipe" -> 4343

\* core::Mem, a handle to a live buffer: its raw cl_mem is not null.
Mem == [ptr : {4096, 8192}]

Mem_as_ptr(b) == b.ptr

\* `0 as cl_mem`
NullMem == 0

\* The values the model gives the usize fields.
Dims == 0..MaxDim

UsizeFields ==
    {"image_width", "image_height", "image_depth", "image_array_size",
     "image_row_pitch", "image_slice_pitch"}

OptionMem == {None} \cup {Some(b) : b \in Mem}

ImageDescriptor_new(image_type, width, height, depth, array_size, row_pitch, slc_pitch, buffer) ==
    [image_type |-> image_type,
     image_width |-> width,
     image_height |-> height,
     image_depth |-> depth,
     image_array_size |-> array_size,
     image_row_pitch |-> row_pitch,
     image_slice_pitch |-> slc_pitch,
     num_mip_levels |-> 0,
     num_samples |-> 0,
     buffer |-> buffer]

\* A faulty to_raw: the two pitches change places.
to_raw_pitches_swapped(self) ==
    [image_type |-> MemObjectType_as_u32(self.image_type),
     image_width |-> self.image_width,
     image_height |-> self.image_height,
     image_depth |-> self.image_depth,
     image_array_size |-> self.image_array_size,
     image_row_pitch |-> self.image_slice_pitch,
     image_slice_pitch |-> self.image_row_pitch,
     num_mip_levels |-> self.num_mip_levels,
     num_samples |-> self.num_mip_levels,
     buffer |-> IF self.buffer.some THEN Mem_as_ptr(self.buffer.val) ELSE NullMem]

ImageDescriptor_to_raw(self) ==
    [image_type |-> MemObjectType_as_u32(self.image_type),
     image_width |-> self.image_width,
     image_height |-> self.image_height,
     image_depth |-> self.image_depth,
     image_array_size |-> self.image_array_size,
     image_row_pitch |-> self.image_row_pitch,
     image_slice_pitch |-> self.image_slice_pitch,
     num_mip_levels |-> self.num_mip_levels,
     num_samples |-> self.num_mip_levels,
     buffer |-> IF self.buffer.some THEN Mem_as_ptr(self.buffer.val) ELSE NullMem]

\* desc_raw before to_raw has run on the descriptor as it is now.
NoRaw == [image_type |-> 0]

DescInit ==
    /\ \E image_type \in MemObjectType, buffer \in OptionMem :
       \E width \in Dims, height \in Dims, depth \in Dims :
       \E array_size \in Dims, row_pitch \in Dims, slc_pitch \in Dims :
          desc = ImageDescriptor_new(image_type, width, height, depth, array_size,
                                     row_pitch, slc_pitch, buffer)
    /\ desc_raw = NoRaw
    /\ desc_op = "new"

\* Writes to the public fields; num_mip_levels and num_samples are private.
DescSetImageType ==
    /\ \E image_type \in MemObjectType : desc' = [desc EXCEPT !.image_type = image_type]
    /\ desc_raw' = NoRaw
    /\ desc_op' = "set"

DescSetUsize ==
    /\ \E f \in UsizeFields, v \in Dims : desc' = [desc EXCEPT ![f] = v]
    /\ desc_raw' = NoRaw
    /\ desc_op' = "set"

DescSetBuffer ==
    /\ \E buffer \in OptionMem : desc' = [desc EXCEPT !.buffer = buffer]
    /\ desc_raw' = NoRaw
    /\ desc_op' = "set"

DescToRaw ==
    /\ desc_raw' = ImageDescriptor_to_raw(desc)
    /\ desc_op' = "to_raw"
    /\ UNCHANGED desc

(***************************************************************************)
(* Specifications: one for each of the three types, and one for            *)
(* list_from_raw. The variables of the others stay as they start.          *)
(***************************************************************************)

PropsIdle ==
    /\ props = ContextProperties_new /\ hist = <<>> /\ op = "new" /\ bytes = <<>>
    /\ prev_bytes = <<>> /\ platform_out = None /\ vec_out = <<>>

TargetIdle == usize_bytes = 8 /\ big_endian = FALSE

FormatIdle == FormatInit

ListIdle == ListInit

DescIdle ==
    /\ desc = ImageDescriptor_new("Image2d", 0, 0, 0, 0, 0, 0, None)
    /\ desc_raw = NoRaw
    /\ desc_op = "new"

Init == TargetInit /\ PropsInit /\ FormatIdle /\ ListIdle /\ DescIdle

Next ==
    \/ New /\ UNCHANGED <<targetVars, fmtVars, listVars, descVars>>
    \/ Platform /\ UNCHANGED <<targetVars, fmtVars, listVars, descVars>>
    \/ InteropUserSync /\ UNCHANGED <<targetVars, fmtVars, listVars, descVars>>
    \/ And /\ UNCHANGED <<targetVars, fmtVars, listVars, descVars>>
    \/ GetPlatform /\ UNCHANGED <<targetVars, fmtVars, listVars, descVars>>
    \/ ToBytes /\ UNCHANGED <<targetVars, fmtVars, listVars, descVars>>
    \/ IntoVec /\ UNCHANGED <<targetVars, fmtVars, listVars, descVars>>
    \/ IntoVecU8 /\ UNCHANGED <<targetVars, fmtVars, listVars, descVars>>

Spec == Init /\ [][Next]_vars

InitFormat == TargetIdle /\ PropsIdle /\ FormatInit /\ ListIdle /\ DescIdle

NextFormat ==
    \/ FormatNew /\ UNCHANGED <<targetVars, propVars, listVars, descVars>>
    \/ FormatNewRgba /\ UNCHANGED <<targetVars, propVars, listVars, descVars>>
    \/ FormatFromRaw /\ UNCHANGED <<targetVars, propVars, listVars, descVars>>
    \/ FormatToRaw /\ UNCHANGED <<targetVars, propVars, listVars, descVars>>
    \/ FormatPixelBytes /\ UNCHANGED <<targetVars, propVars, listVars, descVars>>

SpecFormat == InitFormat /\ [][NextFormat]_vars

InitList == TargetIdle /\ PropsIdle /\ FormatIdle /\ ListInit /\ DescIdle

NextList ==
    \/ ListPush /\ UNCHANGED <<targetVars, propVars, fmtVars, descVars>>
    \/ ListFromRaw /\ UNCHANGED <<targetVars, propVars, fmtVars, descVars>>

SpecList == InitList /\ [][NextList]_vars

InitDesc == TargetIdle /\ PropsIdle /\ FormatIdle /\ ListIdle /\ DescInit

NextDesc ==
    \/ DescSetImageType /\ UNCHANGED <<targetVars, propVars, fmtVars, listVars>>
    \/ DescSetUsize /\ UNCHANGED <<targetVars, propVars, fmtVars, listVars>>
    \/ DescSetBuffer /\ UNCHANGED <<targetVars, propVars, fmtVars, listVars>>
    \/ DescToRaw /\ UNCHANGED <<targetVars, propVars, fmtVars, listVars>>

SpecDesc == InitDesc /\ [][NextDesc]_vars

(***************************************************************************)
(* Properties of ContextProperties (checked under Spec).                   *)
(***************************************************************************)

Zeros(n) == [i \in 1..n |-> 0]

\* Byte k (0 the least significant) of v; the values here are below 2^31.
ByteOf(v, k) == IF k >= 4 THEN 0 ELSE (v \div (256 ^ k)) % 256

\* The n bytes of v in the byte order of the target.
Native(v, n) ==
    [i \in 1..n |-> ByteOf(v, IF big_endian THEN n - i ELSE i - 1)]

IsEncoded(prop) == prop.kind \in {"Platform", "InteropUserSync"}

KindTag(prop) == IF prop.kind = "Platform" THEN 4228 ELSE 4229

\* The value of an encoded entry: a pointer-sized handle, or a cl_bool.
ValueBytes(prop) ==
    IF prop.kind = "Platform" THEN Native(prop.val, usize_bytes)
    ELSE Native(IF prop.val THEN 1 ELSE 0, 4)

EntryTuple(prop) ==
    Native(KindTag(prop), 4) \o Zeros(4) \o ValueBytes(prop) \o Zeros(4)

RECURSIVE TuplesOf(_)
TuplesOf(s) ==
    IF s = <<>> THEN <<>>
    ELSE (IF IsEncoded(Head(s)) THEN EntryTuple(Head(s)) ELSE <<>>) \o TuplesOf(Tail(s))

Serialized == op \in {"to_bytes", "into_vec_u8"}

\* C1: the bytes to_bytes returns are the tuples of the Platform and
\* InteropUserSync entries in append order (tag, 4 zero bytes, value, 4 zero
\* bytes) and then a pointer-sized zero; entries of other variants add
\* nothing, the empty list gives the terminator alone, and a second call on
\* the unmodified list returns the same bytes.
C1_ToBytesLayout ==
    Serialized =>
        /\ bytes = TuplesOf(props) \o Zeros(usize_bytes)
        /\ bytes = TuplesOf(SelectSeq(props, IsEncoded)) \o Zeros(usize_bytes)
        /\ (props = <<>> => bytes = Zeros(usize_bytes))
        /\ (prev_bytes # <<>> => bytes = prev_bytes)

C1_Witness ==
    /\ op = "to_bytes"
    /\ prev_bytes # <<>>
    /\ usize_bytes = 8
    /\ Len(props) = 3
    /\ props[1].kind = "GlContextKhr"
    /\ props[2].kind = "InteropUserSync"
    /\ props[2].val = TRUE
    /\ props[3].kind = "Platform"

OnePlatform == Len(props) = 1 /\ props[1].kind = "Platform"

OnePlatformLayout ==
    bytes = Native(4228, 4) \o Zeros(4) \o Native(props[1].val, usize_bytes)
                \o Zeros(4) \o Zeros(usize_bytes)

\* C2 as stated: a list of one Platform entry serializes to tag, 4 zero bytes,
\* the pointer-sized handle, 4 zero bytes and the pointer-sized terminator,
\* 2 x (4 + 4 + pointer_size) bytes in all.
C2_Original ==
    (Serialized /\ OnePlatform) =>
        /\ OnePlatformLayout
        /\ Len(bytes) = 2 * (4 + 4 + usize_bytes)

\* C2 amended: the same layout, which is (4 + 4 + pointer_size + 4) +
\* pointer_size = 12 + 2 x pointer_size bytes in all.
C2_OnePlatformLength ==
    (Serialized /\ OnePlatform) =>
        /\ OnePlatformLayout
        /\ Len(bytes) = 12 + 2 * usize_bytes

C2_Witness ==
    /\ op = "to_bytes"
    /\ OnePlatform
    /\ props[1].val = 4660
    /\ usize_bytes = 8
    /\ Len(bytes) = 28

LastPlatform(s) ==
    LET at == {i \in DOMAIN s : s[i].kind = "Platform"}
    IN  IF at = {} THEN None
        ELSE Some(s[CHOOSE i \in at : \A j \in at : j <= i].val)

\* C3: get_platform returns the handle of the Platform entry appended last,
\* whatever was appended before or after it, and none exactly when no
\* Platform entry was appended.
C3_LastPlatformWins ==
    op = "get_platform" =>
        /\ platform_out = LastPlatform(hist)
        /\ (platform_out.some <=> \E i \in DOMAIN hist : hist[i].kind = "Platform")

C3_Witness ==
    /\ op = "get_platform"
    /\ Len(hist) = 3
    /\ hist[1].kind = "Platform" /\ hist[1].val = 4660
    /\ hist[2].kind = "Platform" /\ hist[2].val = 16909060
    /\ hist[3].kind = "InteropUserSync"
    /\ platform_out = Some(16909060)

EncodedSize(prop) == 12 + (IF prop.kind = "Platform" THEN usize_bytes ELSE 4)

RECURSIVE EncodedLength(_)
EncodedLength(s) ==
    IF s = <<>> THEN 0
    ELSE (IF IsEncoded(Head(s)) THEN EncodedSize(Head(s)) ELSE 0) + EncodedLength(Tail(s))

\* Where the tuple of entry i starts in the buffer (0-based).
OffsetOf(i) == EncodedLength(SubSeq(props, 1, i - 1))

Slice(off, n) == SubSeq(bytes, off + 1, off + n)

\* C9 as stated: each encoded entry occupies 12 + native_word_size bytes and
\* the buffer is n x (12 + native_word_size) + native_word_size bytes long for
\* n encoded entries.
C9_Original ==
    Serialized =>
        Len(bytes) = Len(SelectSeq(props, IsEncoded)) * (12 + usize_bytes) + usize_bytes

\* C9 amended: each encoded entry is a 4-byte tag, 4 zero bytes, the value and
\* 4 zero bytes, the value being native-word-sized for Platform and
\* cl_bool-sized (4 bytes) for InteropUserSync, so that a Platform entry
\* occupies 12 + native_word_size bytes and an InteropUserSync entry 16; the
\* buffer ends with a native-word-sized zero, and is p x (12 +
\* native_word_size) + s x 16 + native_word_size bytes long for p Platform
\* and s InteropUserSync entries.
C9_EntrySizes ==
    Serialized =>
        LET p == Cardinality({i \in DOMAIN props : props[i].kind = "Platform"})
            s == Cardinality({i \in DOMAIN props : props[i].kind = "InteropUserSync"})
        IN  /\ Len(bytes) = p * (12 + usize_bytes) + s * 16 + usize_bytes
            /\ Slice(Len(bytes) - usize_bytes, usize_bytes) = Zeros(usize_bytes)
            /\ \A i \in DOMAIN props :
                  IsEncoded(props[i]) =>
                      LET off == OffsetOf(i)
                          width == IF props[i].kind = "Platform" THEN usize_bytes ELSE 4
                      IN  /\ Slice(off, 4) = Native(KindTag(props[i]), 4)
                          /\ Slice(off + 4, 4) = Zeros(4)
                          /\ Slice(off + 8, width) = ValueBytes(props[i])
                          /\ Slice(off + 8 + width, 4) = Zeros(4)
                          /\ off + 12 + width <= Len(bytes) - usize_bytes

C9_Witness ==
    /\ op = "to_bytes"
    /\ usize_bytes = 8
    /\ Len(props) = 2
    /\ props[1].kind = "InteropUserSync"
    /\ props[2].kind = "Platform"
    /\ Len(bytes) = 16 + 20 + 8

\* Two lists of entries are the same, entry by entry.
SameList(s, t) ==
    /\ Len(s) = Len(t)
    /\ \A i \in DOMAIN s : s[i].kind = t[i].kind /\ s[i].val = t[i].val

\* C10: each builder call appends the entry it is given at the end and
\* changes nothing else, so the list is always the entries of the calls in
\* call order, duplicates and unencoded variants included; get_platform and
\* to_bytes leave it as it is, and the extracted Vec is that list.
C10_AppendOnly ==
    /\ SameList(props, hist)
    /\ (op = "into_vec" => SameList(vec_out, hist))

C10_Witness ==
    /\ op = "into_vec"
    /\ Len(vec_out) = 3
    /\ vec_out[1].kind = "Platform" /\ vec_out[1].val = 4660
    /\ vec_out[2].kind = "Platform" /\ vec_out[2].val = 4660
    /\ vec_out[3].kind = "GlContextKhr"
    /\ bytes # <<>>
    /\ platform_out.some

(***************************************************************************)
(* Properties of ImageFormat (checked under SpecFormat and SpecList).      *)
(***************************************************************************)

\* C4: to_raw of the format from_raw made of an accepted pair is that pair.
C4_RoundTrip ==
    (fmt_op = "from_raw" /\ fmt_res.ok /\ fmt_query = "to_raw") => raw_out = fmt_raw

C4_Witness ==
    /\ fmt_op = "from_raw"
    /\ fmt_res.ok
    /\ fmt_query = "to_raw"
    /\ raw_out = [image_channel_order |-> 4283, image_channel_data_type |-> 4318]

KnownOrderCodes == 4272..4286

KnownTypeCodes == 4304..4319

\* C5: from_raw fails exactly when one of the codes is unknown: with the
\* channel-order error when that code is unknown, whatever the other is, and
\* with the data-type error only when the channel order is known; otherwise
\* it gives the format of the two enumerants the codes denote.
C5_FromRawErrors ==
    fmt_op = "from_raw" =>
        LET order_ok == fmt_raw.image_channel_order \in KnownOrderCodes
            type_ok == fmt_raw.image_channel_data_type \in KnownTypeCodes
        IN  /\ fmt_res.ok <=> (order_ok /\ type_ok)
            /\ ~order_ok => fmt_res = Err(ERR_ORDER)
            /\ (order_ok /\ ~type_ok) => fmt_res = Err(ERR_DATA_TYPE)
            /\ (order_ok /\ type_ok) =>
                  /\ DOMAIN fmt_res = {"ok", "val"}
                  /\ fmt_res.val.channel_order \in ImageChannelOrder
                  /\ fmt_res.val.channel_data_type \in ImageChannelDataType
                  /\ ImageChannelOrder_as_u32(fmt_res.val.channel_order)
                        = fmt_raw.image_channel_order
                  /\ ImageChannelDataType_as_u32(fmt_res.val.channel_data_type)
                        = fmt_raw.image_channel_data_type

C5_Witness ==
    /\ fmt_op = "from_raw"
    /\ fmt_raw = [image_channel_order |-> 4287, image_channel_data_type |-> 4320]
    /\ fmt_res = Err(ERR_ORDER)

Rejected(raw) ==
    \/ raw.image_channel_order \notin KnownOrderCodes
    \/ raw.image_channel_data_type \notin KnownTypeCodes

\* C6: list_from_raw fails exactly when from_raw rejects an element, with the
\* error of the earliest one, having converted nothing after it and returning
\* no list; otherwise it gives the list of from_raw of each element in order.
C6_ShortCircuit ==
    list_op = "list_from_raw" =>
        LET bad == {i \in DOMAIN list_raw : Rejected(list_raw[i])}
            first == CHOOSE i \in bad : \A j \in bad : i <= j
        IN  /\ list_res.res.ok <=> bad = {}
            /\ bad # {} =>
                  /\ list_res.res = ImageFormat_from_raw(list_raw[first])
                  /\ ~list_res.res.ok
                  /\ DOMAIN list_res.res = {"ok", "err"}
                  /\ list_res.calls = first
            /\ bad = {} =>
                  /\ Len(list_res.res.val) = Len(list_raw)
                  /\ \A i \in DOMAIN list_raw :
                        Ok(list_res.res.val[i]) = ImageFormat_from_raw(list_raw[i])

C6_Witness ==
    /\ list_op = "list_from_raw"
    /\ Len(list_raw) = 3
    /\ ~Rejected(list_raw[1])
    /\ list_raw[2] = [image_channel_order |-> 4277, image_channel_data_type |-> 4320]
    /\ list_raw[3] = [image_channel_order |-> 0, image_channel_data_type |-> 4306]
    /\ list_res.res = Err(ERR_DATA_TYPE)
    /\ list_res.calls = 2

CountTable(order) ==
    IF order \in {"R", "A", "Rgb"} THEN 1
    ELSE IF order \in {"Rg", "Ra", "Rx"} THEN 2
    ELSE IF order \in {"Rgba", "Bgra", "Argb", "Intensity", "Luminance", "Rgbx", "Rgx"} THEN 4
    ELSE 0

SizeTable(data_type) ==
    IF data_type \in {"SnormInt8", "UnormInt8", "SignedInt8", "UnsignedInt8"} THEN 1
    ELSE IF data_type \in {"SnormInt16", "UnormInt16", "SignedInt16", "UnsignedInt16",
                           "HalfFloat", "UnormShort565", "UnormShort555"} THEN 2
    ELSE IF data_type \in {"SignedInt32", "UnsignedInt32", "Float", "UnormInt101010"} THEN 4
    ELSE 0

\* C7: pixel_bytes is the channel count of the order times the channel size
\* of the data type by the two tables, and 0 exactly when one of the two is
\* in no table; (Rgba, UnormInt8) and (R, SignedInt32) both give 4.
C7_PixelBytes ==
    fmt_query = "pixel_bytes" =>
        LET order == fmt_res.val.channel_order
            data_type == fmt_res.val.channel_data_type
        IN  /\ px_out = CountTable(order) * SizeTable(data_type)
            /\ px_out = 0 <=> (order \in {"Depth", "DepthStencil"} \/ data_type = "UnormInt24")
            /\ (order = "Rgba" /\ data_type = "UnormInt8") => px_out = 4
            /\ (order = "R" /\ data_type = "SignedInt32") => px_out = 4

C7_Witness ==
    /\ fmt_query = "pixel_bytes"
    /\ fmt_res.val = [channel_order |-> "Rgx", channel_data_type |-> "HalfFloat"]
    /\ px_out = 8

(***************************************************************************)
(* Properties of ImageDescriptor (checked under SpecDesc).                 *)
(***************************************************************************)

RawMatches ==
    /\ desc_raw.image_type = MemObjectType_as_u32(desc.image_type)
    /\ \A f \in UsizeFields : desc_raw[f] = desc[f]
    /\ desc_raw.num_mip_levels = 0
    /\ desc_raw.num_samples = 0
    /\ desc_raw.buffer = 0 <=> ~desc.buffer.some
    /\ desc.buffer.some => desc_raw.buffer = desc.buffer.val.ptr

\* C8: to_raw gives the type code and the six usize fields of the descriptor
\* as they are, zero for num_mip_levels and num_samples, and for buffer the
\* null pointer exactly when there is no buffer and the raw handle of the
\* buffer otherwise; it leaves the descriptor as it was.
C8_Projection ==
    /\ [](desc_op = "to_raw" => RawMatches)
    /\ [][desc_op' = "to_raw" => desc' = desc]_vars

C8_Witness ==
    /\ desc_op = "to_raw"
    /\ desc.buffer = Some([ptr |-> 8192])
    /\ desc_raw.buffer = 8192
    /\ desc.image_type = "Image1dBuffer"
    /\ desc.image_row_pitch = 1
    /\ desc.image_slice_pitch = 0
    /\ desc_raw.image_row_pitch = 1

====
